---- MODULE Spec2Model ----
(***************************************************************************)
(* Model of the access-zones permission engine: the bitfield validator,   *)
(* the bitfield codec, role aggregation and the permission evaluator.     *)
(*                                                                         *)
(* JavaScript numbers.  A bitfield is a JS Number (IEEE double) and the    *)
(* bitwise operators work on its 32-bit two's-complement image.  TLC's     *)
(* integers stop at 2^31-1, so a Number is modelled as a record            *)
(*    [cls, neg, int, half]                                                *)
(* cls  : "finite", "nan" or "inf"                                         *)
(* neg  : the sign                                                         *)
(* int  : the binary expansion of the magnitude's integer part, as the     *)
(*        set of positions of its 1 bits (5 = {0, 2})                      *)
(* half : TRUE when the value has a fractional part (modelled as .5)       *)
(* Zero is always [neg |-> FALSE]; -0 is not modelled.                     *)
(***************************************************************************)
EXTENDS Integers, Sequences, FiniteSets, TLC

VARIABLES op, args, input, needed, data, user, zoneArg, roleArg, rolesArg,
          itemArg, writeArg, configArg, objArg, result, heap

\* what a call is made on; a call changes op and result only
inputs ==
  <<args, input, needed, data, user, zoneArg, roleArg, rolesArg, itemArg, writeArg,
    configArg, objArg>>

vars == <<op, inputs, result, heap>>

-----------------------------------------------------------------------------
(* Numbers *)

RECURSIVE BitsFrom(_, _)
BitsFrom(n, i) ==
  IF n = 0 THEN {}
  ELSE (IF n % 2 = 1 THEN {i} ELSE {}) \cup BitsFrom(n \div 2, i + 1)

Finite(isNeg, mag, hasHalf) ==
  [cls |-> "finite", neg |-> isNeg, int |-> mag, half |-> hasHalf]

\* the Number of a small integer literal
Num(n) == Finite(n < 0, BitsFrom(IF n < 0 THEN 0 - n ELSE n, 0), FALSE)

\* the Number of the hexadecimal literal 0xHHHHLLLL
Hex32(hi, lo) ==
  Finite(FALSE, BitsFrom(lo, 0) \cup {b + 16 : b \in BitsFrom(hi, 0)}, FALSE)

\* 2^k
Pow2(k) == Finite(FALSE, {k}, FALSE)

\* n + 0.5, a non-integer
Half(n) == Finite(FALSE, BitsFrom(n, 0), TRUE)

NaN == [cls |-> "nan", neg |-> FALSE, int |-> {}, half |-> FALSE]

Infinity == [cls |-> "inf", neg |-> FALSE, int |-> {}, half |-> FALSE]

NegInfinity == [cls |-> "inf", neg |-> TRUE, int |-> {}, half |-> FALSE]

Zero == Num(0)

\* Number.MAX_SAFE_INTEGER = 2^53 - 1
MAX_SAFE_INTEGER == Finite(FALSE, 0 .. 52, FALSE)

NumberIsFinite(x) == x.cls = "finite"

NumberIsInteger(x) == x.cls = "finite" /\ ~x.half

NumberIsSafeInteger(x) == NumberIsInteger(x) /\ \A b \in x.int : b < 53

\* A < B for two magnitudes: the highest bit in which they differ is B's
MagLt(A, B) == \E b \in B \ A : \A a \in A \ B : a < b

AbsLt(a, b) == MagLt(a.int, b.int) \/ (a.int = b.int /\ ~a.half /\ b.half)

\* the JS relational operator a < b
Lt(a, b) ==
  CASE a.cls = "nan" \/ b.cls = "nan" -> FALSE
    [] a.cls = "inf" -> a.neg /\ ~(b.cls = "inf" /\ b.neg)
    [] b.cls = "inf" -> ~b.neg
    [] a.neg /\ ~b.neg -> TRUE
    [] ~a.neg /\ b.neg -> FALSE
    [] a.neg /\ b.neg -> AbsLt(b, a)
    [] OTHER -> AbsLt(a, b)

\* the JS relational operator a > b
Gt(a, b) == Lt(b, a)

\* the JS operator a === b on two Numbers
StrictEquals(a, b) == a.cls # "nan" /\ b.cls # "nan" /\ a = b

\* ToBoolean of a Number
Truthy(x) == x.cls # "nan" /\ x # Zero

Word == 0 .. 31

\* two's-complement negation of a 32-bit pattern: invert, then add one
TwosComplement(P) ==
  LET inv == Word \ P
  IN IF inv = Word THEN {}
     ELSE LET k == CHOOSE i \in Word : i \notin inv /\ \A j \in 0 .. (i - 1) : j \in inv
          IN (inv \ (0 .. (k - 1))) \cup {k}

\* ToInt32: the 32-bit pattern a bitwise operator sees
ToInt32(x) ==
  IF x.cls # "finite" THEN {}
  ELSE LET low == x.int \cap Word
       IN IF x.neg THEN TwosComplement(low) ELSE low

\* the Number a 32-bit pattern denotes as a signed integer
FromInt32(P) ==
  IF 31 \in P THEN Finite(TRUE, TwosComplement(P), FALSE)
  ELSE Finite(FALSE, P, FALSE)

\* a & b
BitAnd(a, b) == FromInt32(ToInt32(a) \cap ToInt32(b))

\* a | b
BitOr(a, b) == FromInt32(ToInt32(a) \cup ToInt32(b))

\* ~a
BitNot(a) == FromInt32(Word \ ToInt32(a))

\* a << k: the pattern moved up by the low five bits of k, the rest dropped
ShiftLeft(a, k) ==
  FromInt32({b + (k % 32) : b \in {c \in ToInt32(a) : c + (k % 32) <= 31}})

-----------------------------------------------------------------------------
(* Outcomes of a call: a returned value or a thrown error *)

NoError == [name |-> "", status |-> "", message |-> ""]

Undefined == "undefined"

Return(v) == [threw |-> FALSE, value |-> v, error |-> NoError]

Throw(e) == [threw |-> TRUE, value |-> Undefined, error |-> e]

\* new AccessControlException({ message, status })
AccessControlException(msg, st) ==
  [name |-> "AccessControlException", status |-> st, message |-> msg]

\* new Error(message)
PlainError(msg) == [name |-> "Error", status |-> "", message |-> msg]

-----------------------------------------------------------------------------
(* constants/masks.ts *)

PERMISSION_MASKS ==
  [ADMIN |-> Num(16), CREATE |-> Num(8), READ |-> Num(4),
   UPDATE |-> Num(2), DELETE |-> Num(1), ALL |-> Num(15)]

-----------------------------------------------------------------------------
(* core/validation.ts *)

MAX_VALID_PERMISSION == Hex32(65535, 65535)

MIN_VALID_PERMISSION == Num(0)

\* isValidBitField without the lower bound: a negative integer passes
isValidBitField_NoLowerBound(bitField) ==
  IF ~NumberIsInteger(bitField) \/ ~NumberIsFinite(bitField) THEN FALSE
  ELSE IF Gt(bitField, MAX_VALID_PERMISSION) THEN FALSE
  ELSE IF ~NumberIsSafeInteger(bitField) THEN FALSE
  ELSE TRUE

\* isValidBitField with the upper bound off by one: 0xFFFFFFFF is refused
isValidBitField_ExclusiveMax(bitField) ==
  IF ~NumberIsInteger(bitField) \/ ~NumberIsFinite(bitField) THEN FALSE
  ELSE IF Lt(bitField, MIN_VALID_PERMISSION) \/ ~Lt(bitField, MAX_VALID_PERMISSION) THEN FALSE
  ELSE IF ~NumberIsSafeInteger(bitField) THEN FALSE
  ELSE TRUE

isValidBitField(bitField) ==
  IF ~NumberIsInteger(bitField) \/ ~NumberIsFinite(bitField) THEN FALSE
  ELSE IF Lt(bitField, MIN_VALID_PERMISSION) \/ Gt(bitField, MAX_VALID_PERMISSION) THEN FALSE
  ELSE IF ~NumberIsSafeInteger(bitField) THEN FALSE
  ELSE TRUE

isValidPermissionMask(permission) == isValidBitField(permission)

\* The message is `Invalid ${context}: ${bitField}. ${reason}`; the model
\* keeps the reason, which is the part that depends on the check that failed.
validateBitField(bitField) ==
  IF ~isValidBitField(bitField)
  THEN LET reason ==
             IF ~NumberIsInteger(bitField) \/ ~NumberIsFinite(bitField)
               THEN "Must be a finite integer."
             ELSE IF Lt(bitField, MIN_VALID_PERMISSION)
               THEN "Must be non-negative."
             ELSE IF Gt(bitField, MAX_VALID_PERMISSION)
               THEN "Must not exceed 4294967295 (32-bit limit)."
             ELSE IF ~NumberIsSafeInteger(bitField)
               THEN "Must be within JavaScript safe integer range."
             ELSE "Invalid bitfield value."
       IN Throw(AccessControlException(reason, "invalid_permission"))
  ELSE Return(Undefined)

validatePermissionMask(permission) ==
  IF ~isValidPermissionMask(permission)
  THEN Throw(AccessControlException(
               "Must be a valid permission mask or combination.",
               "invalid_permission"))
  ELSE Return(Undefined)

\* The message lists describeBitField of the three bitfields; the model keeps
\* the fixed part.
validateAllowedPermissions(bitField, allowedPermissions) ==
  LET vb == validateBitField(bitField)
      va == validateBitField(allowedPermissions)
      disallowedBits == BitAnd(bitField, BitNot(allowedPermissions))
  IN IF vb.threw THEN vb
     ELSE IF va.threw THEN va
     ELSE IF ~StrictEquals(disallowedBits, Zero)
       THEN Throw(AccessControlException(
                    "Bitfield contains disallowed permissions.", "forbidden"))
     ELSE Return(Undefined)

RESERVED_ZONE_NAMES ==
  {"__proto__", "__defineGetter__", "__defineSetter__", "__lookupGetter__",
   "__lookupSetter__", "constructor", "hasOwnProperty", "isPrototypeOf",
   "propertyIsEnumerable", "toLocaleString", "toString", "valueOf"}

MAX_ZONE_NAME_LENGTH == 128

startsWith(s, c) == Len(s) >= 1 /\ SubSeq(s, 1, 1) = c

endsWith(s, c) == Len(s) >= 1 /\ SubSeq(s, Len(s), Len(s)) = c

\* isValidZoneName with the length limit off by one: 128 characters are refused
isValidZoneName_Shorter(zoneName) ==
  IF Len(zoneName) = 0 THEN FALSE
  ELSE IF Len(zoneName) >= MAX_ZONE_NAME_LENGTH THEN FALSE
  ELSE IF zoneName \in RESERVED_ZONE_NAMES THEN FALSE
  ELSE IF startsWith(zoneName, "_") \/ endsWith(zoneName, "_") THEN FALSE
  ELSE TRUE

isValidZoneName(zoneName) ==
  IF Len(zoneName) = 0 THEN FALSE
  ELSE IF Len(zoneName) > MAX_ZONE_NAME_LENGTH THEN FALSE
  ELSE IF zoneName \in RESERVED_ZONE_NAMES THEN FALSE
  ELSE IF startsWith(zoneName, "_") \/ endsWith(zoneName, "_") THEN FALSE
  ELSE TRUE

\* validateZoneName that accepts every name
validateZoneName_Accepts(zoneName) == Return(Undefined)

validateZoneName(zoneName) ==
  IF ~isValidZoneName(zoneName)
  THEN LET reason ==
             IF Len(zoneName) = 0 THEN "Must not be empty."
             ELSE IF Len(zoneName) > MAX_ZONE_NAME_LENGTH
               THEN "Must not exceed 128 characters."
             ELSE IF zoneName \in RESERVED_ZONE_NAMES
               THEN "is a reserved property name and cannot be used as a zone name."
             ELSE IF startsWith(zoneName, "_") \/ endsWith(zoneName, "_")
               THEN "Must not start or end with underscore."
             ELSE "Invalid zone name."
       IN Throw(AccessControlException(reason, "invalid_permission"))
  ELSE Return(Undefined)

\* Object.create(null): an object with no own and no inherited property
createSafeObject == [k \in {} |-> Zero]

-----------------------------------------------------------------------------
(* core/bitfield.ts *)

\* A Permission is a record of the five flags.
Permissions ==
  [create : BOOLEAN, read : BOOLEAN, update : BOOLEAN, delete : BOOLEAN,
   admin : BOOLEAN]

maskArr == <<"create", "read", "update", "delete", "admin">>

\* PERMISSION_MASKS[key.toUpperCase()]
MaskOfKey(key) ==
  CASE key = "create" -> PERMISSION_MASKS.CREATE
    [] key = "read" -> PERMISSION_MASKS.READ
    [] key = "update" -> PERMISSION_MASKS.UPDATE
    [] key = "delete" -> PERMISSION_MASKS.DELETE
    [] key = "admin" -> PERMISSION_MASKS.ADMIN

RECURSIVE toBitFieldFrom(_, _, _)
toBitFieldFrom(permission, i, accumPermissions) ==
  IF i > Len(maskArr) THEN accumPermissions
  ELSE LET key == maskArr[i]
           permissionMask == IF permission[key] THEN MaskOfKey(key) ELSE Zero
       IN toBitFieldFrom(permission, i + 1, BitOr(accumPermissions, permissionMask))

\* toBitField that leaves the admin flag out
toBitField_DropsAdmin(permission) ==
  toBitFieldFrom([permission EXCEPT !.admin = FALSE], 1, Zero)

toBitField(permission) == toBitFieldFrom(permission, 1, Zero)

fromBitField(bitField) ==
  LET v == validateBitField(bitField)
  IN IF v.threw THEN v
     ELSE Return(
       [create |-> StrictEquals(BitAnd(PERMISSION_MASKS.CREATE, bitField), PERMISSION_MASKS.CREATE),
        read |-> StrictEquals(BitAnd(PERMISSION_MASKS.READ, bitField), PERMISSION_MASKS.READ),
        update |-> StrictEquals(BitAnd(PERMISSION_MASKS.UPDATE, bitField), PERMISSION_MASKS.UPDATE),
        delete |-> StrictEquals(BitAnd(PERMISSION_MASKS.DELETE, bitField), PERMISSION_MASKS.DELETE),
        admin |-> StrictEquals(BitAnd(PERMISSION_MASKS.ADMIN, bitField), PERMISSION_MASKS.ADMIN)])

\* A PermissionInput is a Permission or a number: [isNumber, num, perm].
NoPermission ==
  [create |-> FALSE, read |-> FALSE, update |-> FALSE, delete |-> FALSE,
   admin |-> FALSE]

NumberInput(n) == [isNumber |-> TRUE, num |-> n, perm |-> NoPermission]

PermissionInput(p) == [isNumber |-> FALSE, num |-> Zero, perm |-> p]

normalizePermission(in) ==
  IF in.isNumber THEN fromBitField(in.num) ELSE Return(in.perm)

normalizePermissionToBitField(in) ==
  IF in.isNumber
  THEN LET v == validateBitField(in.num)
       IN IF v.threw THEN v ELSE Return(in.num)
  ELSE Return(toBitField(in.perm))

hasPermission(bitField, permission) ==
  LET v1 == validateBitField(bitField)
      v2 == validatePermissionMask(permission)
  IN IF v1.threw THEN v1
     ELSE IF v2.threw THEN v2
     ELSE Return(StrictEquals(BitAnd(bitField, permission), permission))

\* bitFields.forEach(validateBitField): the first invalid operand throws
RECURSIVE validateAll(_)
validateAll(bitFields) ==
  IF bitFields = <<>> THEN Return(Undefined)
  ELSE LET v == validateBitField(Head(bitFields))
       IN IF v.threw THEN v ELSE validateAll(Tail(bitFields))

RECURSIVE orAll(_, _)
orAll(bitFields, combined) ==
  IF bitFields = <<>> THEN combined
  ELSE orAll(Tail(bitFields), BitOr(combined, Head(bitFields)))

combinePermissions(bitFields) ==
  LET v == validateAll(bitFields)
  IN IF v.threw THEN v ELSE Return(orAll(bitFields, Zero))

-----------------------------------------------------------------------------
(* core/roles.ts *)

\* The repository holds two versions of collapseRoles.  The one modelled is the
\* one that validates the zone name as well as the bitfield of every entry and
\* accumulates into a null-prototype object; the other validates the bitfield
\* only.  On roles whose zone names are valid the two agree.

\* A NormalizedRole is [id, name, access]; access is the role's object, kept
\* as the sequence of its [zone, permission] entries in insertion order, which
\* is the order Object.entries walks them in.  Keys are distinct.

\* A RoleWithAccess is [id, name, access] too; its access is the array of its
\* [zone, permission] items, zone standing for item.zone.name.  A zone may
\* occur in several items.

\* access[zoneName] = permission on the entry sequence of an object: an
\* existing key keeps its place and takes the value, a new key goes last
SetEntry(entries, key, value) ==
  IF \E i \in 1 .. Len(entries) : entries[i].zone = key
  THEN [i \in 1 .. Len(entries) |->
          IF entries[i].zone = key
            THEN [zone |-> key, permission |-> value]
            ELSE entries[i]]
  ELSE Append(entries, [zone |-> key, permission |-> value])

\* the items of a raw role, from item i on, checked and stored
RECURSIVE normalizeEntries(_, _, _)
normalizeEntries(rawAccess, i, access) ==
  IF i > Len(rawAccess) THEN Return(access)
  ELSE LET zoneName == rawAccess[i].zone
           vz == validateZoneName(zoneName)
           vb == validateBitField(rawAccess[i].permission)
       IN IF vz.threw THEN vz
          ELSE IF vb.threw THEN vb
          ELSE normalizeEntries(rawAccess, i + 1,
                 SetEntry(access, zoneName, rawAccess[i].permission))

\* normalizeRole that lets an item with an invalid zone name through
normalizeRole_KeepsBadNames(rawRole) ==
  LET access == normalizeEntries(rawRole.access, 1, <<>>)
      namesValid ==
        \A i \in 1 .. Len(rawRole.access) : isValidZoneName(rawRole.access[i].zone)
  IN IF access.threw /\ namesValid THEN access
     ELSE Return([id |-> rawRole.id, name |-> rawRole.name,
                  access |-> IF access.threw THEN rawRole.access
                             ELSE access.value])

normalizeRole(rawRole) ==
  LET access == normalizeEntries(rawRole.access, 1, <<>>)
  IN IF access.threw THEN access
     ELSE Return([id |-> rawRole.id, name |-> rawRole.name,
                  access |-> access.value])

\* obj[key] || 0
GetOrZero(obj, key) ==
  IF key \in DOMAIN obj /\ Truthy(obj[key]) THEN obj[key] ELSE Zero

\* obj[key] = value
Put(obj, key, value) ==
  [k \in DOMAIN obj \cup {key} |-> IF k = key THEN value ELSE obj[k]]

\* the entries of one role, from entry i on, folded into the accumulator
RECURSIVE collapseEntries(_, _, _)
collapseEntries(access, i, acc) ==
  IF i > Len(access) THEN Return(acc)
  ELSE LET zoneName == access[i].zone
           permission == access[i].permission
           vz == validateZoneName(zoneName)
           vb == validateBitField(permission)
       IN IF vz.threw THEN vz
          ELSE IF vb.threw THEN vb
          ELSE collapseEntries(access, i + 1,
                 Put(acc, zoneName, BitOr(GetOrZero(acc, zoneName), permission)))

RECURSIVE collapseFrom(_, _, _)
collapseFrom(roles, r, acc) ==
  IF r > Len(roles) THEN Return(acc)
  ELSE LET one == collapseEntries(roles[r].access, 1, acc)
       IN IF one.threw THEN one ELSE collapseFrom(roles, r + 1, one.value)

\* collapseRoles in which the last role replaces the ones before it
collapseRoles_LastWins(roles) ==
  IF roles = <<>> THEN Return(createSafeObject)
  ELSE collapseFrom(roles, Len(roles), createSafeObject)

\* collapseRoles that leaves out the first role of the list
collapseRoles_SkipsFirst(roles) == collapseFrom(roles, 2, createSafeObject)

collapseRoles(roles) == collapseFrom(roles, 1, createSafeObject)

\* the ZonePermissions of a user: every zone of the collapsed roles, decoded
getGlobalPermissions(u) ==
  LET collapsedRoles == collapseRoles(u.roles)
  IN IF collapsedRoles.threw THEN collapsedRoles
     ELSE LET decoded ==
                [zoneName \in DOMAIN collapsedRoles.value |->
                   fromBitField(collapsedRoles.value[zoneName])]
          IN IF \E z \in DOMAIN decoded : decoded[z].threw
             THEN decoded[CHOOSE z \in DOMAIN decoded : decoded[z].threw]
             ELSE Return([zoneName \in DOMAIN decoded |-> decoded[zoneName].value])

\* Object.keys(permissions): the array is modelled as the set of its
\* elements, which are distinct
getUserZones(u) ==
  LET permissions == getGlobalPermissions(u)
  IN IF permissions.threw THEN permissions
     ELSE Return(DOMAIN permissions.value)

-----------------------------------------------------------------------------
(* core/permissions.ts *)

\* The `needed` argument is a JS value: a zone map, or (the declared input
\* type also allows it) an array of zone maps: [isArray, map, list].
NeededMap(m) == [isArray |-> FALSE, map |-> m, list |-> <<>>]

NeededList(l) == [isArray |-> TRUE, map |-> createSafeObject, list |-> l]

\* A property value of the copy: a number, or an object (an element of the
\* array).  num is its ToNumber image, NaN for an object.
NumberValue(n) == [isObject |-> FALSE, num |-> n, obj |-> createSafeObject]

ObjectValue(o) == [isObject |-> TRUE, num |-> NaN, obj |-> o]

\* the property key of array index i (0-based keys, 1-based sequence)
IndexKey(i) == <<"0", "1", "2", "3", "4", "5", "6", "7">>[i]

\* { ...needed }: the own enumerable properties; those of an array are its
\* indices, each holding the element
Spread(value) ==
  IF value.isArray
  THEN [k \in {IndexKey(i) : i \in 1 .. Len(value.list)} |->
          ObjectValue(value.list[CHOOSE i \in 1 .. Len(value.list) : IndexKey(i) = k])]
  ELSE [k \in DOMAIN value.map |-> NumberValue(value.map[k])]

\* permission === 0
IsZeroValue(v) == ~v.isObject /\ StrictEquals(v.num, Zero)

\* StripZero that deletes nothing
StripZero_Keep(neededCopy) == neededCopy

\* the copy after the forEach that deletes the zero entries
StripZero(neededCopy) ==
  [k \in {z \in DOMAIN neededCopy : ~IsZeroValue(neededCopy[z])} |-> neededCopy[k]]

\* (neededAccessBits & userPermissions) === neededAccessBits
hasAccess(neededAccessBits, userPermissions) ==
  LET anded == BitAnd(neededAccessBits.num, userPermissions)
  IN ~neededAccessBits.isObject /\ StrictEquals(anded, neededAccessBits.num)

\* checkPermission that answers false when collapseRoles fails
checkPermission_Swallows(neededArg, roles) ==
  LET neededCopy == StripZero(Spread(neededArg))
      numPermissionsNeeded == Cardinality(DOMAIN neededCopy)
  IN IF numPermissionsNeeded = 0 THEN Return(TRUE)
     ELSE LET collapsed == collapseRoles(roles)
          IN IF collapsed.threw THEN Return(FALSE)
             ELSE LET currentPermissions == collapsed.value
                      accessCount ==
                        Cardinality({section \in DOMAIN neededCopy :
                          hasAccess(neededCopy[section],
                                    GetOrZero(currentPermissions, section))})
                  IN Return(accessCount = numPermissionsNeeded)

checkPermission(neededArg, roles) ==
  LET neededCopy == StripZero(Spread(neededArg))
      numPermissionsNeeded == Cardinality(DOMAIN neededCopy)
  IN IF numPermissionsNeeded = 0 THEN Return(TRUE)
     ELSE LET collapsed == collapseRoles(roles)
          IN IF collapsed.threw THEN collapsed
             ELSE LET currentPermissions == collapsed.value
                      accessCount ==
                        Cardinality({section \in DOMAIN neededCopy :
                          hasAccess(neededCopy[section],
                                    GetOrZero(currentPermissions, section))})
                  IN Return(accessCount = numPermissionsNeeded)

\* assertAccess that reports the refusal as forbidden
assertAccess_Forbidden(neededArg, roles) ==
  LET granted == checkPermission(neededArg, roles)
  IN IF granted.threw THEN granted
     ELSE IF ~granted.value
       THEN Throw(AccessControlException("Not authenticated", "forbidden"))
     ELSE Return(Undefined)

assertAccess(neededArg, roles) ==
  LET granted == checkPermission(neededArg, roles)
  IN IF granted.threw THEN granted
     ELSE IF ~granted.value
       THEN Throw(AccessControlException("Not authenticated", "unauthorized"))
     ELSE Return(Undefined)

\* data is `Partial<{ userId: string }> | undefined`: [present, hasUserId, userId]
NoData == [present |-> FALSE, hasUserId |-> FALSE, userId |-> ""]

EmptyData == [present |-> TRUE, hasUserId |-> FALSE, userId |-> ""]

DataOf(uid) == [present |-> TRUE, hasUserId |-> TRUE, userId |-> uid]

\* OwnsData that accepts any owner id
OwnsData_AnyOwner(d, u) == d.present /\ d.hasUserId

\* data?.userId === user.id; user.id is always a string
OwnsData(d, u) == d.present /\ d.hasUserId /\ d.userId = u.id

\* assertDataAccess without the ownership test
assertDataAccess_NoBypass(d, accessNeeded, u) ==
  LET granted == checkPermission(accessNeeded, u.roles)
  IN IF granted.threw THEN granted
     ELSE IF ~granted.value THEN Throw(PlainError("Unauthorized"))
     ELSE Return(TRUE)

assertDataAccess(d, accessNeeded, u) ==
  IF OwnsData(d, u) THEN Return(TRUE)
  ELSE LET granted == checkPermission(accessNeeded, u.roles)
       IN IF granted.threw THEN granted
          ELSE IF ~granted.value THEN Throw(PlainError("Unauthorized"))
          ELSE Return(TRUE)

\* An AccessControlledItem is [uid, access, permissions].
\* uid is absent, a string, or an object with an id: [kind, id].
\* access is settings.access: [present, hasGlobal, global, hasUsers, users],
\* global a PermissionInput, users the array of [uid, access] overrides.
\* permissions is the legacy settings.permissions: [present, num].
NoUid == [kind |-> "none", id |-> ""]

UidString(s) == [kind |-> "string", id |-> s]

UidObject(s) == [kind |-> "object", id |-> s]

NoAccess ==
  [present |-> FALSE, hasGlobal |-> FALSE, global |-> NumberInput(Zero),
   hasUsers |-> FALSE, users |-> <<>>]

NoLegacy == [present |-> FALSE, num |-> Zero]

Legacy(n) == [present |-> TRUE, num |-> n]

NoItem == [uid |-> NoUid, access |-> NoAccess, permissions |-> NoLegacy]

\* if (item.uid): an object is truthy, a string is unless it is empty
UidTruthy(uid) == uid.kind = "object" \/ (uid.kind = "string" /\ uid.id # "")

\* users?.find((accessUser) => accessUser.uid === userId): the index of the
\* first match, 0 when there is none
FindUser(access, userId) ==
  LET hits == {i \in 1 .. Len(access.users) : access.users[i].uid = userId}
  IN IF ~access.hasUsers \/ hits = {} THEN 0
     ELSE CHOOSE i \in hits : \A j \in hits : i <= j

\* fromBitField(collapseRoles(user.roles)[zoneKey] || 0, restricted by global)
RolePermissions(u, access, zoneKey) ==
  LET userPermissions == collapseRoles(u.roles)
  IN IF userPermissions.threw THEN userPermissions
     ELSE LET zonePermissions == GetOrZero(userPermissions.value, zoneKey)
          IN IF access.hasGlobal
             THEN LET globalBitField == normalizePermissionToBitField(access.global)
                  IN IF globalBitField.threw THEN globalBitField
                     ELSE fromBitField(BitAnd(zonePermissions, globalBitField.value))
             ELSE fromBitField(zonePermissions)

getUserPermissions(u, item, zoneKey) ==
  IF item.access.present
  THEN IF UidTruthy(item.uid) /\ item.uid.id = u.id
       THEN fromBitField(PERMISSION_MASKS.ADMIN)
       ELSE LET found == FindUser(item.access, u.id)
            IN IF found # 0
               THEN LET userLevelAccess == item.access.users[found]
                    IN IF userLevelAccess.access.isNumber
                       THEN fromBitField(userLevelAccess.access.num)
                       ELSE Return(userLevelAccess.access.perm)
               ELSE RolePermissions(u, item.access, zoneKey)
  ELSE RolePermissions(u, NoAccess, zoneKey)

\* fromBitField(normalizePermissionToBitField(value)), as an access value
decodeAccess(value) ==
  LET bitField == normalizePermissionToBitField(value)
  IN IF bitField.threw THEN bitField
     ELSE LET permission == fromBitField(bitField.value)
          IN IF permission.threw THEN permission
             ELSE Return(PermissionInput(permission.value))

\* access.users.map((userObj) => ({ ...userObj, access: decoded }))
RECURSIVE mapUsers(_)
mapUsers(users) ==
  IF users = <<>> THEN Return(<<>>)
  ELSE LET userObj == Head(users)
           decoded == decodeAccess(userObj.access)
       IN IF decoded.threw THEN decoded
          ELSE LET rest == mapUsers(Tail(users))
               IN IF rest.threw THEN rest
                  ELSE Return(<<[userObj EXCEPT !.access = decoded.value]>>
                                \o rest.value)

\* transformItemAccessSchema that hands the per-user overrides on as they are
transformItemAccessSchema_KeepsUsers(access) ==
  LET transformedGlobal ==
        IF access.hasGlobal THEN decodeAccess(access.global)
        ELSE Return(access.global)
  IN IF transformedGlobal.threw THEN transformedGlobal
     ELSE Return([access EXCEPT !.global = transformedGlobal.value])

transformItemAccessSchema(access) ==
  LET transformedGlobal ==
        IF access.hasGlobal THEN decodeAccess(access.global)
        ELSE Return(access.global)
      transformedUsers ==
        IF access.hasUsers /\ Len(access.users) > 0 THEN mapUsers(access.users)
        ELSE Return(access.users)
  IN IF transformedGlobal.threw THEN transformedGlobal
     ELSE IF transformedUsers.threw THEN transformedUsers
     ELSE Return([access EXCEPT !.global = transformedGlobal.value,
                                !.users = transformedUsers.value])

\* hasPermissions that lets a read-only grant satisfy a write request
hasPermissions_IgnoresWrite(u, item, write) ==
  LET permissions == item.permissions
      legacy ==
        IF permissions.present
        THEN Return(StrictEquals(permissions.num, Zero)
                      \/ StrictEquals(permissions.num, Num(1)))
        ELSE Return(FALSE)
  IN IF item.access.present /\ item.access.hasGlobal
     THEN LET globalBitField == normalizePermissionToBitField(item.access.global)
          IN IF globalBitField.threw THEN globalBitField
             ELSE LET readable ==
                        hasPermission(globalBitField.value, PERMISSION_MASKS.READ)
                  IN IF readable.threw THEN readable
                     ELSE IF readable.value THEN Return(TRUE)
                     ELSE legacy
     ELSE legacy

hasPermissions(u, item, write) ==
  LET permissions == item.permissions
      legacy ==
        IF permissions.present
        THEN Return(StrictEquals(permissions.num, Zero)
                      \/ (StrictEquals(permissions.num, Num(1)) /\ ~write))
        ELSE Return(FALSE)
  IN IF item.access.present /\ item.access.hasGlobal
     THEN LET globalBitField == normalizePermissionToBitField(item.access.global)
          IN IF globalBitField.threw THEN globalBitField
             ELSE LET readable ==
                        hasPermission(globalBitField.value, PERMISSION_MASKS.READ)
                  IN IF readable.threw THEN readable
                     ELSE IF readable.value THEN Return(TRUE)
                     ELSE legacy
     ELSE legacy

-----------------------------------------------------------------------------
(* Objects and references *)

\* The functions above compute with values.  What a call writes to is an
\* object: heap.objects is the sequence of the objects alive, a reference is a
\* position in it, and heap.returned is the reference a call returned, 0 when
\* it returned no mapping.  Object 1 is `needed`, held as its own properties;
\* object 1 + i is the access map of role i.  An object a failed call leaves
\* behind is unreachable and not kept.
NoHeap == [objects |-> <<>>, returned |-> 0]

ArgumentObjects(neededArg, roles) ==
  <<Spread(neededArg)>> \o [i \in 1 .. Len(roles) |-> roles[i].access]

\* the roles as the heap holds them
RolesOf(objects, roles) ==
  [i \in 1 .. Len(roles) |-> [roles[i] EXCEPT !.access = objects[1 + i]]]

\* const result = createSafeObject(); every write of the loops goes to result
collapseRolesHeap(objects, roles) ==
  LET collapsed == collapseRoles(RolesOf(objects, roles))
  IN IF collapsed.threw THEN [objects |-> objects, returned |-> 0]
     ELSE [objects |-> Append(objects, collapsed.value),
           returned |-> Len(objects) + 1]

\* checkPermission that deletes the zero entries from `needed` itself
checkPermissionHeap_InPlace(objects, roles) ==
  LET neededCopy == 1
      stripped == [objects EXCEPT ![neededCopy] = StripZero(objects[neededCopy])]
  IN IF DOMAIN stripped[neededCopy] = {} THEN [objects |-> stripped, returned |-> 0]
     ELSE [objects |-> collapseRolesHeap(stripped, roles).objects, returned |-> 0]

\* const neededCopy = { ...needed }; delete neededCopy[zoneName]; collapseRoles
checkPermissionHeap(objects, roles) ==
  LET copied == Append(objects, objects[1])
      neededCopy == Len(copied)
      stripped == [copied EXCEPT ![neededCopy] = StripZero(copied[neededCopy])]
  IN IF DOMAIN stripped[neededCopy] = {} THEN [objects |-> stripped, returned |-> 0]
     ELSE [objects |-> collapseRolesHeap(stripped, roles).objects, returned |-> 0]

\* collapseRoles, then const result = createSafeObject() filled zone by zone
getGlobalPermissionsHeap(objects, roles) ==
  LET collapsed == collapseRolesHeap(objects, roles)
      permissions ==
        getGlobalPermissions([id |-> "user1", roles |-> RolesOf(objects, roles)])
  IN IF collapsed.returned = 0 THEN collapsed
     ELSE IF permissions.threw
       THEN [objects |-> collapsed.objects, returned |-> 0]
     ELSE [objects |-> Append(collapsed.objects, permissions.value),
           returned |-> Len(collapsed.objects) + 1]

\* getUserPermissions writes nowhere; it reaches collapseRoles unless the
\* owner or a per-user override decides
getUserPermissionsHeap(objects, u, item) ==
  IF /\ item.access.present
     /\ \/ UidTruthy(item.uid) /\ item.uid.id = u.id
        \/ FindUser(item.access, u.id) # 0
  THEN [objects |-> objects, returned |-> 0]
  ELSE [objects |-> collapseRolesHeap(objects, u.roles).objects, returned |-> 0]

-----------------------------------------------------------------------------
(* core/extended.ts *)

MAX_EXTENDED_PERMISSIONS == 27

FIRST_EXTENDED_BIT == 5

UpperCaseLetters == "ABCDEFGHIJKLMNOPQRSTUVWXYZ"

LowerCaseLetters == "abcdefghijklmnopqrstuvwxyz"

\* the place of the character c in the string letters, 0 when it is not there
IndexOf(letters, c) ==
  IF \E i \in 1 .. Len(letters) : SubSeq(letters, i, i) = c
  THEN CHOOSE i \in 1 .. Len(letters) : SubSeq(letters, i, i) = c
  ELSE 0

\* s.toLowerCase()
RECURSIVE toLowerCase(_)
toLowerCase(s) ==
  IF Len(s) = 0 THEN ""
  ELSE LET c == SubSeq(s, 1, 1)
           at == IndexOf(UpperCaseLetters, c)
       IN (IF at = 0 THEN c ELSE SubSeq(LowerCaseLetters, at, at))
            \o toLowerCase(SubSeq(s, 2, Len(s)))

\* s.replace(/_([a-z])/g, (_, c) => c.toUpperCase())
RECURSIVE replaceUnderscoreLetter(_)
replaceUnderscoreLetter(s) ==
  IF Len(s) = 0 THEN ""
  ELSE LET at == IF Len(s) >= 2 /\ SubSeq(s, 1, 1) = "_"
                   THEN IndexOf(LowerCaseLetters, SubSeq(s, 2, 2))
                   ELSE 0
       IN IF at # 0
          THEN SubSeq(UpperCaseLetters, at, at)
                 \o replaceUnderscoreLetter(SubSeq(s, 3, Len(s)))
          ELSE SubSeq(s, 1, 1) \o replaceUnderscoreLetter(SubSeq(s, 2, Len(s)))

snakeToCamel(s) == replaceUnderscoreLetter(toLowerCase(s))

BASE_ACRUD_LABELS ==
  [admin |-> "Admin", create |-> "Create", read |-> "Read", update |-> "Update",
   delete |-> "Delete"]

\* A config is the sequence of its [key, label] properties in the order
\* Object.keys gives them; keys are distinct.

\* the loop that assigns the masks, from key i on (i counts from 0 as in the
\* code); built is [masks, camelToMask, extendedBitsMask]
RECURSIVE assignMasks(_, _, _)
assignMasks(keys, i, built) ==
  IF ~(i < Len(keys)) THEN built
  ELSE LET mask == ShiftLeft(Num(1), FIRST_EXTENDED_BIT + i)
       IN assignMasks(keys, i + 1,
            [masks |-> Put(built.masks, keys[i + 1], mask),
             camelToMask |->
               Append(built.camelToMask,
                      [camel |-> snakeToCamel(keys[i + 1]), mask |-> mask]),
             extendedBitsMask |-> BitOr(built.extendedBitsMask, mask)])

\* the loop that adds the labels of the extension flags to the base labels
RECURSIVE assignLabels(_, _, _)
assignLabels(config, i, labels) ==
  IF i > Len(config) THEN labels
  ELSE assignLabels(config, i + 1,
         Put(labels, snakeToCamel(config[i].key), config[i].label))

\* defineExtendedPermissions with the limit off by one: 27 are refused
defineExtendedPermissions_Refuses27(config) ==
  LET keys == [i \in 1 .. Len(config) |-> config[i].key]
  IN IF Len(keys) >= MAX_EXTENDED_PERMISSIONS
     THEN Throw(PlainError("Too many extended permissions"))
     ELSE LET built ==
                assignMasks(keys, 0,
                  [masks |-> createSafeObject, camelToMask |-> <<>>,
                   extendedBitsMask |-> Zero])
              crudBitsMask ==
                BitOr(BitOr(BitOr(PERMISSION_MASKS.CREATE, PERMISSION_MASKS.READ),
                            PERMISSION_MASKS.UPDATE),
                      PERMISSION_MASKS.DELETE)
          IN Return([masks |-> built.masks,
                     camelToMask |-> built.camelToMask,
                     labels |-> assignLabels(config, 1, BASE_ACRUD_LABELS),
                     extendedBitsMask |-> built.extendedBitsMask,
                     crudBitsMask |-> crudBitsMask])

\* The value returned holds the data the two closures work on; toBitField
\* and fromBitField themselves are determined by camelToMask.
defineExtendedPermissions(config) ==
  LET keys == [i \in 1 .. Len(config) |-> config[i].key]
  IN IF Len(keys) > MAX_EXTENDED_PERMISSIONS
     THEN Throw(PlainError("Too many extended permissions"))
     ELSE LET built ==
                assignMasks(keys, 0,
                  [masks |-> createSafeObject, camelToMask |-> <<>>,
                   extendedBitsMask |-> Zero])
              crudBitsMask ==
                BitOr(BitOr(BitOr(PERMISSION_MASKS.CREATE, PERMISSION_MASKS.READ),
                            PERMISSION_MASKS.UPDATE),
                      PERMISSION_MASKS.DELETE)
          IN Return([masks |-> built.masks,
                     camelToMask |-> built.camelToMask,
                     labels |-> assignLabels(config, 1, BASE_ACRUD_LABELS),
                     extendedBitsMask |-> built.extendedBitsMask,
                     crudBitsMask |-> crudBitsMask])

\* An ExtendedPermissionObject is a function from flag names to booleans; a
\* flag that is missing reads as undefined, which is falsy.
NoFlags == [f \in {} |-> FALSE]

\* obj.flag in a condition
FlagSet(obj, flag) == flag \in DOMAIN obj /\ obj[flag]

\* the loop over camelToMask of toBitField, from entry i on
RECURSIVE extendedBitsFrom(_, _, _, _)
extendedBitsFrom(camelToMask, obj, i, bits) ==
  IF i > Len(camelToMask) THEN bits
  ELSE extendedBitsFrom(camelToMask, obj, i + 1,
         IF FlagSet(obj, camelToMask[i].camel)
           THEN BitOr(bits, camelToMask[i].mask)
           ELSE bits)

\* the toBitField closure of the extension ext
extendedToBitField(ext, obj) ==
  LET b1 == IF FlagSet(obj, "admin") THEN BitOr(Zero, PERMISSION_MASKS.ADMIN) ELSE Zero
      b2 == IF FlagSet(obj, "create") THEN BitOr(b1, PERMISSION_MASKS.CREATE) ELSE b1
      b3 == IF FlagSet(obj, "read") THEN BitOr(b2, PERMISSION_MASKS.READ) ELSE b2
      b4 == IF FlagSet(obj, "update") THEN BitOr(b3, PERMISSION_MASKS.UPDATE) ELSE b3
      b5 == IF FlagSet(obj, "delete") THEN BitOr(b4, PERMISSION_MASKS.DELETE) ELSE b4
  IN Return(extendedBitsFrom(ext.camelToMask, obj, 1, b5))

\* (bitField & mask) !== 0
BitTest(bitField, mask) == ~StrictEquals(BitAnd(bitField, mask), Zero)

\* the loop over camelToMask of fromBitField, from entry i on
RECURSIVE extendedFlagsFrom(_, _, _, _)
extendedFlagsFrom(camelToMask, bitField, i, flags) ==
  IF i > Len(camelToMask) THEN flags
  ELSE extendedFlagsFrom(camelToMask, bitField, i + 1,
         Put(flags, camelToMask[i].camel, BitTest(bitField, camelToMask[i].mask)))

\* the fromBitField closure of the extension ext
extendedFromBitField(ext, bitField) ==
  LET v == validateBitField(bitField)
  IN IF v.threw THEN v
     ELSE Return(extendedFlagsFrom(ext.camelToMask, bitField, 1,
            [admin |-> BitTest(bitField, PERMISSION_MASKS.ADMIN),
             create |-> BitTest(bitField, PERMISSION_MASKS.CREATE),
             read |-> BitTest(bitField, PERMISSION_MASKS.READ),
             update |-> BitTest(bitField, PERMISSION_MASKS.UPDATE),
             delete |-> BitTest(bitField, PERMISSION_MASKS.DELETE)]))

-----------------------------------------------------------------------------
(* Bounds and input sets *)

\* longest role list
MaxRoles == 2

\* longest list of required maps
MaxList == 2

\* most operands of a variadic call
MaxOperands == 2

SeqsUpTo(S, n) == UNION {[1 .. k -> S] : k \in 0 .. n}

Zones == {"content", "users"}

READ_UPDATE == BitOr(PERMISSION_MASKS.READ, PERMISSION_MASKS.UPDATE)

HIGH_BIT == Pow2(31)

\* required bitfields of a single map: none, one flag, a composite, bit 31
ReqBits == {Zero, PERMISSION_MASKS.READ, READ_UPDATE, HIGH_BIT}

\* the zone maps a single-map requirement is drawn from
MapsOver(bits) == UNION {[D -> bits] : D \in SUBSET Zones}

\* the zone maps the elements of a list requirement are drawn from: the empty
\* map, a zero-only map, one zone, two zones, and a mix of zero and non-zero
ListMaps ==
  {createSafeObject,
   [z \in {"content"} |-> Zero],
   [z \in {"content"} |-> PERMISSION_MASKS.READ],
   [z \in Zones |-> IF z = "content" THEN READ_UPDATE ELSE PERMISSION_MASKS.READ],
   [z \in Zones |-> IF z = "content" THEN Zero ELSE READ_UPDATE]}

NeededInputs ==
  {NeededMap(m) : m \in MapsOver(ReqBits)}
    \cup {NeededList(l) : l \in SeqsUpTo(ListMaps, MaxList)}

Entry(z, p) == [zone |-> z, permission |-> p]

\* hand-built roles: two ordinary ones whose grants add up, one granting every
\* bit of a zone, and one carrying an invalid bitfield
RolePool ==
  {[id |-> "role1", name |-> "Editor",
    access |-> <<Entry("content", BitOr(PERMISSION_MASKS.CREATE, PERMISSION_MASKS.UPDATE))>>],
   [id |-> "role2", name |-> "Viewer",
    access |-> <<Entry("content", PERMISSION_MASKS.READ), Entry("users", PERMISSION_MASKS.READ)>>],
   [id |-> "role3", name |-> "Root",
    access |-> <<Entry("users", MAX_VALID_PERMISSION)>>],
   [id |-> "role4", name |-> "Broken",
    access |-> <<Entry("users", Num(-1))>>]}

Users == {[id |-> "user1", roles |-> rs] : rs \in SeqsUpTo(RolePool, MaxRoles)}

\* roles built by hand, not by normalizeRole: a reserved zone name, a leading
\* and a trailing underscore, a fractional bitfield
HandBuiltRoles ==
  {[id |-> "role5", name |-> "Role",
    access |-> <<Entry("constructor", PERMISSION_MASKS.READ)>>],
   [id |-> "role6", name |-> "Role",
    access |-> <<Entry("content", PERMISSION_MASKS.READ),
                 Entry("_admin", PERMISSION_MASKS.ADMIN)>>],
   [id |-> "role7", name |-> "Role",
    access |-> <<Entry("internal_", PERMISSION_MASKS.READ)>>],
   [id |-> "role8", name |-> "Role",
    access |-> <<Entry("content", Half(1))>>]}

\* a valid role that names a zone without granting anything in it
IdleRoles ==
  {[id |-> "role9", name |-> "Guest",
    access |-> <<Entry("content", Zero), Entry("users", PERMISSION_MASKS.READ)>>]}

\* most items of a raw role
MaxItems == 2

\* the items of a raw role: valid and invalid zone names, valid and invalid
\* bitfields
RawItems ==
  {Entry(z, p) : z \in Zones \cup {"__proto__", "_x"},
                 p \in {PERMISSION_MASKS.READ, MAX_VALID_PERMISSION, Num(-1)}}

RawRoles ==
  {[id |-> "role1", name |-> "Editor", access |-> a] : a \in SeqsUpTo(RawItems, MaxItems)}

NoRole == [id |-> "", name |-> "", access |-> <<>>]

\* the owner of an item: none, the user as a string and as an object, another
OwnerInputs == {NoUid, UidString("user1"), UidObject("user1"), UidString("other-user")}

\* a global override: a flag, a composite without READ, a Permission, and a
\* number that is not a bitfield
GlobalInputs ==
  {NumberInput(PERMISSION_MASKS.READ),
   NumberInput(PERMISSION_MASKS.UPDATE),
   PermissionInput([NoPermission EXCEPT !.read = TRUE, !.update = TRUE]),
   NumberInput(Num(-1))}

Override(uid, access) == [uid |-> uid, access |-> access]

\* the per-user overrides: one for the user as a bitfield and as a Permission,
\* one for the user behind one for somebody else, and the empty array
OverrideInputs ==
  {<<Override("user1", NumberInput(READ_UPDATE))>>,
   <<Override("user1",
              PermissionInput([NoPermission EXCEPT !.read = TRUE, !.update = TRUE]))>>,
   <<Override("other-user", NumberInput(PERMISSION_MASKS.ALL)),
     Override("user1", NumberInput(PERMISSION_MASKS.DELETE))>>,
   <<>>}

AccessInputs ==
  {NoAccess}
    \cup {[present |-> TRUE, hasGlobal |-> FALSE, global |-> NumberInput(Zero),
           hasUsers |-> FALSE, users |-> <<>>]}
    \cup {[present |-> TRUE, hasGlobal |-> TRUE, global |-> g,
           hasUsers |-> FALSE, users |-> <<>>] : g \in GlobalInputs}
    \cup {[present |-> TRUE, hasGlobal |-> FALSE, global |-> NumberInput(Zero),
           hasUsers |-> TRUE, users |-> us] : us \in OverrideInputs}
    \cup {[present |-> TRUE, hasGlobal |-> TRUE, global |-> g,
           hasUsers |-> TRUE, users |-> us] : g \in GlobalInputs, us \in OverrideInputs}

\* the legacy field: absent, full access, read-only, anything else
LegacyInputs == {NoLegacy, Legacy(Zero), Legacy(Num(1)), Legacy(Num(2))}

Items ==
  {[uid |-> o, access |-> a, permissions |-> l] :
     o \in OwnerInputs, a \in AccessInputs, l \in LegacyInputs}

ZoneKeys == {"content", "users", "nonexistent"}

\* most capabilities of a generated configuration: one more than the limit
MaxCapabilities == 28

\* the decimal numeral of n
RECURSIVE Decimal(_)
Decimal(n) ==
  IF n < 10 THEN SubSeq("0123456789", n + 1, n + 1)
  ELSE Decimal(n \div 10) \o SubSeq("0123456789", (n % 10) + 1, (n % 10) + 1)

Capability(key, label) == [key |-> key, label |-> label]

\* the configuration PERM_0 .. PERM_(n-1)
PermConfig(n) ==
  [i \in 1 .. n |-> Capability("PERM_" \o Decimal(i - 1), "Perm " \o Decimal(i - 1))]

NamedCapabilities ==
  {Capability("INVITE_MEMBERS", "Invite Members"),
   Capability("REVIEW", "Review"),
   Capability("SUBMIT_PROPOSALS", "Submit Proposals"),
   Capability("VOTE", "Vote")}

\* the named capabilities in every order, each at most once, and the
\* generated configurations of every size up to MaxCapabilities
Configs ==
  {c \in SeqsUpTo(NamedCapabilities, Cardinality(NamedCapabilities)) :
     \A i, j \in 1 .. Len(c) : c[i] = c[j] => i = j}
    \cup {PermConfig(n) : n \in 0 .. MaxCapabilities}

\* largest configuration whose flags are given every assignment
MaxExhaustive == 4

BaseFlags == {"admin", "create", "read", "update", "delete"}

\* the flags of the objects of a configuration: the base ones and the
\* camel-case names of its capabilities
FlagNames(config) ==
  BaseFlags \cup {snakeToCamel(config[i].key) : i \in 1 .. Len(config)}

\* the objects given to toBitField: every assignment for a small
\* configuration; for a large one all false, all true, one flag alone, the
\* base flags alone and the extension flags alone
Assignments(config) ==
  IF Len(config) <= MaxExhaustive THEN [FlagNames(config) -> BOOLEAN]
  ELSE {[f \in FlagNames(config) |-> f \in T] :
          T \in {{}, FlagNames(config), BaseFlags, FlagNames(config) \ BaseFlags}
                  \cup {{g} : g \in FlagNames(config)}}

\* the configuration of the tests, cut after its first n capabilities
DecisionConfig(n) ==
  SubSeq(<<Capability("INVITE_MEMBERS", "Invite Members"),
           Capability("REVIEW", "Review"),
           Capability("SUBMIT_PROPOSALS", "Submit Proposals"),
           Capability("VOTE", "Vote")>>, 1, n)

\* the configurations whose closures are called
CodecConfigs ==
  {DecisionConfig(n) : n \in 0 .. 4} \cup {PermConfig(n) : n \in 0 .. MaxCapabilities}

\* the bitfields given to the extended fromBitField
ExtendedBitFields ==
  {Zero, Num(9), Num(192), Num(511), HIGH_BIT, MAX_VALID_PERMISSION, Num(-1), NaN}

DataInputs == {NoData, EmptyData, DataOf("user1"), DataOf("other-user")}

\* operands of the codec and the validator
Numbers ==
  {Zero, Num(1), Num(4), Num(6), Num(31), HIGH_BIT, MAX_VALID_PERMISSION,
   Num(-1), Pow2(32), MAX_SAFE_INTEGER, Pow2(53), Half(1), NaN, Infinity,
   NegInfinity}

NoResult == [threw |-> FALSE, value |-> Undefined, error |-> NoError]

NoUser == [id |-> "user1", roles |-> <<>>]

-----------------------------------------------------------------------------
(* The evaluator: calls of checkPermission, assertAccess, assertDataAccess *)

Init ==
  /\ op = "none"
  /\ args = <<>>
  /\ input = NumberInput(Zero)
  /\ needed \in NeededInputs
  /\ data \in DataInputs
  /\ user \in Users
  /\ zoneArg = ""
  /\ roleArg = NoRole
  /\ rolesArg = <<>>
  /\ itemArg = NoItem
  /\ writeArg = FALSE
  /\ configArg = <<>>
  /\ objArg = NoFlags
  /\ heap = NoHeap
  /\ result = NoResult

CheckPermission ==
  /\ op' = "checkPermission"
  /\ result' = checkPermission(needed, user.roles)
  /\ UNCHANGED <<inputs, heap>>

AssertAccess ==
  /\ op' = "assertAccess"
  /\ result' = assertAccess(needed, user.roles)
  /\ UNCHANGED <<inputs, heap>>

AssertDataAccess ==
  /\ op' = "assertDataAccess"
  /\ result' = assertDataAccess(data, needed, user)
  /\ UNCHANGED <<inputs, heap>>

Next == CheckPermission \/ AssertAccess \/ AssertDataAccess

Spec == Init /\ [][Next]_vars

-----------------------------------------------------------------------------
(* The codec and the validator: calls on numeric operands *)

InitBits ==
  /\ op = "none"
  /\ \/ /\ args \in SeqsUpTo(Numbers, MaxOperands)
        /\ input = NumberInput(Zero)
     \/ /\ args = <<>>
        /\ input \in {NumberInput(n) : n \in Numbers}
                       \cup {PermissionInput(p) : p \in Permissions}
  /\ needed = NeededMap(createSafeObject)
  /\ data = NoData
  /\ user = NoUser
  /\ zoneArg = ""
  /\ roleArg = NoRole
  /\ rolesArg = <<>>
  /\ itemArg = NoItem
  /\ writeArg = FALSE
  /\ configArg = <<>>
  /\ objArg = NoFlags
  /\ heap = NoHeap
  /\ result = NoResult

IsValidBitField ==
  /\ Len(args) = 1
  /\ op' = "isValidBitField"
  /\ result' = Return(isValidBitField(args[1]))
  /\ UNCHANGED <<inputs, heap>>

ValidateBitField ==
  /\ Len(args) = 1
  /\ op' = "validateBitField"
  /\ result' = validateBitField(args[1])
  /\ UNCHANGED <<inputs, heap>>

HasPermission ==
  /\ Len(args) = 2
  /\ op' = "hasPermission"
  /\ result' = hasPermission(args[1], args[2])
  /\ UNCHANGED <<inputs, heap>>

ValidateAllowedPermissions ==
  /\ Len(args) = 2
  /\ op' = "validateAllowedPermissions"
  /\ result' = validateAllowedPermissions(args[1], args[2])
  /\ UNCHANGED <<inputs, heap>>

FromBitField ==
  /\ Len(args) = 1
  /\ op' = "fromBitField"
  /\ result' = fromBitField(args[1])
  /\ UNCHANGED <<inputs, heap>>

CombinePermissions ==
  /\ op' = "combinePermissions"
  /\ result' = combinePermissions(args)
  /\ UNCHANGED <<inputs, heap>>

ToBitField ==
  /\ args = <<>>
  /\ ~input.isNumber
  /\ op' = "toBitField"
  /\ result' = Return(toBitField(input.perm))
  /\ UNCHANGED <<inputs, heap>>

NormalizePermission ==
  /\ args = <<>>
  /\ op' = "normalizePermission"
  /\ result' = normalizePermission(input)
  /\ UNCHANGED <<inputs, heap>>

NormalizePermissionToBitField ==
  /\ args = <<>>
  /\ op' = "normalizePermissionToBitField"
  /\ result' = normalizePermissionToBitField(input)
  /\ UNCHANGED <<inputs, heap>>

NextBits ==
  \/ IsValidBitField
  \/ ValidateBitField
  \/ HasPermission
  \/ ValidateAllowedPermissions
  \/ FromBitField
  \/ CombinePermissions
  \/ ToBitField
  \/ NormalizePermission
  \/ NormalizePermissionToBitField

SpecBits == InitBits /\ [][NextBits]_vars

-----------------------------------------------------------------------------
(* The zone-name validator: calls on one name *)

\* the string of n copies of c
RECURSIVE Repeat(_, _)
Repeat(c, n) ==
  IF n = 0 THEN ""
  ELSE LET half == Repeat(c, n \div 2)
       IN IF n % 2 = 0 THEN half \o half ELSE half \o half \o c

\* the middle of a candidate name: nothing, ordinary names, every reserved
\* name, and runs around the length limit
NameBodies ==
  {"", "a", "content", "user-settings", "user_settings"}
    \cup RESERVED_ZONE_NAMES
    \cup {Repeat("a", n) : n \in MAX_ZONE_NAME_LENGTH - 2 .. MAX_ZONE_NAME_LENGTH + 1}

\* candidate names: a body, with or without a leading and a trailing "_"
ZoneNames ==
  {pre \o body \o post : pre \in {"", "_"}, body \in NameBodies, post \in {"", "_"}}

InitZones ==
  /\ op = "none"
  /\ args = <<>>
  /\ input = NumberInput(Zero)
  /\ needed = NeededMap(createSafeObject)
  /\ data = NoData
  /\ user = NoUser
  /\ zoneArg \in ZoneNames
  /\ roleArg = NoRole
  /\ rolesArg = <<>>
  /\ itemArg = NoItem
  /\ writeArg = FALSE
  /\ configArg = <<>>
  /\ objArg = NoFlags
  /\ heap = NoHeap
  /\ result = NoResult

IsValidZoneName ==
  /\ op' = "isValidZoneName"
  /\ result' = Return(isValidZoneName(zoneArg))
  /\ UNCHANGED <<inputs, heap>>

ValidateZoneName ==
  /\ op' = "validateZoneName"
  /\ result' = validateZoneName(zoneArg)
  /\ UNCHANGED <<inputs, heap>>

NextZones == IsValidZoneName \/ ValidateZoneName

SpecZones == InitZones /\ [][NextZones]_vars

-----------------------------------------------------------------------------
(* Role aggregation: calls of normalizeRole and collapseRoles *)

InitRoles ==
  /\ op = "none"
  /\ args = <<>>
  /\ input = NumberInput(Zero)
  /\ needed = NeededMap(createSafeObject)
  /\ data = NoData
  /\ user = NoUser
  /\ zoneArg = ""
  /\ \/ /\ roleArg \in RawRoles
        /\ rolesArg = <<>>
     \/ /\ roleArg = NoRole
        /\ rolesArg \in SeqsUpTo(RolePool \cup HandBuiltRoles \cup IdleRoles, MaxRoles)
  /\ itemArg = NoItem
  /\ writeArg = FALSE
  /\ configArg = <<>>
  /\ objArg = NoFlags
  /\ heap = NoHeap
  /\ result = NoResult

NormalizeRole ==
  /\ rolesArg = <<>>
  /\ op' = "normalizeRole"
  /\ result' = normalizeRole(roleArg)
  /\ UNCHANGED <<inputs, heap>>

CollapseRoles ==
  /\ roleArg = NoRole
  /\ op' = "collapseRoles"
  /\ result' = collapseRoles(rolesArg)
  /\ UNCHANGED <<inputs, heap>>

GetGlobalPermissions ==
  /\ roleArg = NoRole
  /\ op' = "getGlobalPermissions"
  /\ result' = getGlobalPermissions([id |-> "user1", roles |-> rolesArg])
  /\ UNCHANGED <<inputs, heap>>

GetUserZones ==
  /\ roleArg = NoRole
  /\ op' = "getUserZones"
  /\ result' = getUserZones([id |-> "user1", roles |-> rolesArg])
  /\ UNCHANGED <<inputs, heap>>

NextRoles == NormalizeRole \/ CollapseRoles \/ GetGlobalPermissions \/ GetUserZones

SpecRoles == InitRoles /\ [][NextRoles]_vars

-----------------------------------------------------------------------------
(* Item-level access: calls of getUserPermissions and hasPermissions *)

\* getUserPermissions is called with a zone key, hasPermissions with the
\* write flag (and a user whose roles it never reads)
InitItems ==
  /\ op = "none"
  /\ args = <<>>
  /\ input = NumberInput(Zero)
  /\ needed = NeededMap(createSafeObject)
  /\ data = NoData
  /\ roleArg = NoRole
  /\ rolesArg = <<>>
  /\ itemArg \in Items
  /\ \/ /\ user \in Users
        /\ zoneArg \in ZoneKeys
        /\ writeArg = FALSE
     \/ /\ user = NoUser
        /\ zoneArg = ""
        /\ writeArg \in BOOLEAN
  /\ configArg = <<>>
  /\ objArg = NoFlags
  /\ heap = NoHeap
  /\ result = NoResult

GetUserPermissions ==
  /\ zoneArg # ""
  /\ op' = "getUserPermissions"
  /\ result' = getUserPermissions(user, itemArg, zoneArg)
  /\ UNCHANGED <<inputs, heap>>

HasPermissions ==
  /\ zoneArg = ""
  /\ op' = "hasPermissions"
  /\ result' = hasPermissions(user, itemArg, writeArg)
  /\ UNCHANGED <<inputs, heap>>

\* the function neither assigns to access nor to anything reachable from it
TransformItemAccessSchema ==
  /\ zoneArg = ""
  /\ itemArg.access.present
  /\ op' = "transformItemAccessSchema"
  /\ result' = transformItemAccessSchema(itemArg.access)
  /\ UNCHANGED <<inputs, heap>>

NextItems == GetUserPermissions \/ HasPermissions \/ TransformItemAccessSchema

SpecItems == InitItems /\ [][NextItems]_vars

-----------------------------------------------------------------------------
(* Extended permissions: calls of defineExtendedPermissions *)

InitExtended ==
  /\ op = "none"
  /\ args = <<>>
  /\ input = NumberInput(Zero)
  /\ needed = NeededMap(createSafeObject)
  /\ data = NoData
  /\ user = NoUser
  /\ zoneArg = ""
  /\ roleArg = NoRole
  /\ rolesArg = <<>>
  /\ itemArg = NoItem
  /\ writeArg = FALSE
  /\ configArg \in Configs
  /\ objArg = NoFlags
  /\ heap = NoHeap
  /\ result = NoResult

DefineExtendedPermissions ==
  /\ op' = "defineExtendedPermissions"
  /\ result' = defineExtendedPermissions(configArg)
  /\ UNCHANGED <<inputs, heap>>

NextExtended == DefineExtendedPermissions

SpecExtended == InitExtended /\ [][NextExtended]_vars

-----------------------------------------------------------------------------
(* The extended codec: calls of the closures of an extension *)

InitExtendedCodec ==
  /\ op = "none"
  /\ input = NumberInput(Zero)
  /\ needed = NeededMap(createSafeObject)
  /\ data = NoData
  /\ user = NoUser
  /\ zoneArg = ""
  /\ roleArg = NoRole
  /\ rolesArg = <<>>
  /\ itemArg = NoItem
  /\ writeArg = FALSE
  /\ configArg \in CodecConfigs
  /\ \/ /\ objArg \in Assignments(configArg)
        /\ args = <<>>
     \/ /\ objArg = NoFlags
        /\ args \in {<<b>> : b \in ExtendedBitFields}
  /\ heap = NoHeap
  /\ result = NoResult

\* defineExtendedPermissions(config).toBitField(obj)
ExtendedToBitField ==
  /\ args = <<>>
  /\ ~defineExtendedPermissions(configArg).threw
  /\ op' = "extended.toBitField"
  /\ result' = extendedToBitField(defineExtendedPermissions(configArg).value, objArg)
  /\ UNCHANGED <<inputs, heap>>

\* defineExtendedPermissions(config).fromBitField(bitField)
ExtendedFromBitField ==
  /\ Len(args) = 1
  /\ ~defineExtendedPermissions(configArg).threw
  /\ op' = "extended.fromBitField"
  /\ result' = extendedFromBitField(defineExtendedPermissions(configArg).value, args[1])
  /\ UNCHANGED <<inputs, heap>>

NextExtendedCodec == ExtendedToBitField \/ ExtendedFromBitField

SpecExtendedCodec == InitExtendedCodec /\ [][NextExtendedCodec]_vars

-----------------------------------------------------------------------------
(* Calls seen as reads and writes of objects *)

InitHeap ==
  /\ op = "none"
  /\ args = <<>>
  /\ input = NumberInput(Zero)
  /\ data = NoData
  /\ user \in Users
  /\ \/ /\ needed \in NeededInputs
        /\ itemArg = NoItem
        /\ zoneArg = ""
     \/ /\ needed = NeededMap(createSafeObject)
        /\ itemArg \in Items
        /\ zoneArg = "content"
  /\ roleArg = NoRole
  /\ rolesArg = <<>>
  /\ writeArg = FALSE
  /\ configArg = <<>>
  /\ objArg = NoFlags
  /\ heap = [objects |-> ArgumentObjects(needed, user.roles), returned |-> 0]
  /\ result = NoResult

\* the argument objects as they are now; what earlier calls allocated is gone
Arguments == SubSeq(heap.objects, 1, 1 + Len(user.roles))

CallCheckPermission ==
  /\ zoneArg = ""
  /\ op' = "checkPermission"
  /\ result' = checkPermission(needed, RolesOf(Arguments, user.roles))
  /\ heap' = checkPermissionHeap(Arguments, user.roles)
  /\ UNCHANGED inputs

CallCollapseRoles ==
  /\ zoneArg = ""
  /\ op' = "collapseRoles"
  /\ result' = collapseRoles(RolesOf(Arguments, user.roles))
  /\ heap' = collapseRolesHeap(Arguments, user.roles)
  /\ UNCHANGED inputs

CallGetGlobalPermissions ==
  /\ zoneArg = ""
  /\ op' = "getGlobalPermissions"
  /\ result' = getGlobalPermissions([user EXCEPT !.roles = RolesOf(Arguments, user.roles)])
  /\ heap' = getGlobalPermissionsHeap(Arguments, user.roles)
  /\ UNCHANGED inputs

CallGetUserPermissions ==
  /\ zoneArg # ""
  /\ op' = "getUserPermissions"
  /\ result' = getUserPermissions([user EXCEPT !.roles = RolesOf(Arguments, user.roles)],
                                  itemArg, zoneArg)
  /\ heap' = getUserPermissionsHeap(Arguments, user, itemArg)
  /\ UNCHANGED inputs

NextHeap ==
  \/ CallCheckPermission
  \/ CallCollapseRoles
  \/ CallGetGlobalPermissions
  \/ CallGetUserPermissions

SpecHeap == InitHeap /\ [][NextHeap]_vars

-----------------------------------------------------------------------------
(* What the claims speak of, stated without the code's operators *)

\* x is an integer in [0, 2^32 - 1]
IsUint32(x) == x.cls = "finite" /\ ~x.half /\ ~x.neg /\ x.int \subseteq Word

\* r returned the value v
Returns(r, v) == ~r.threw /\ r.value = v

\* r failed with an error of the kind InvalidPermission
FailsInvalidPermission(r) ==
  /\ r.threw
  /\ r.error.name = "AccessControlException"
  /\ r.error.status = "invalid_permission"

\* every entry of every role is a valid zone name with a valid bitfield
RolesValid(roles) ==
  \A r \in 1 .. Len(roles) : \A i \in 1 .. Len(roles[r].access) :
    /\ IsUint32(roles[r].access[i].permission)
    /\ roles[r].access[i].zone \in Zones

\* the bits some role grants in the zone: the OR of the roles' bitfields
GrantedBits(roles, zone) ==
  UNION {UNION {IF roles[r].access[i].zone = zone
                  THEN roles[r].access[i].permission.int
                  ELSE {} : i \in 1 .. Len(roles[r].access)} :
           r \in 1 .. Len(roles)}

\* every zone with a non-zero requirement has all its required bits granted
Satisfied(m, roles) ==
  \A z \in DOMAIN m : m[z] # Zero => m[z].int \subseteq GrantedBits(roles, z)

\* s is a valid zone name: 1 to 128 characters, not reserved, no "_" at
\* either end
NameOk(s) ==
  /\ Len(s) \in 1 .. 128
  /\ s \notin RESERVED_ZONE_NAMES
  /\ SubSeq(s, 1, 1) # "_"
  /\ SubSeq(s, Len(s), Len(s)) # "_"

\* e is a valid zone name with a valid bitfield
EntryValid(e) == NameOk(e.zone) /\ IsUint32(e.permission)

\* the elements of a sequence
Range(q) == {q[i] : i \in 1 .. Len(q)}

\* the zones some role of the list has an entry for
ZonesOf(roles) ==
  UNION {{roles[r].access[i].zone : i \in 1 .. Len(roles[r].access)} :
           r \in 1 .. Len(roles)}

\* data carries an owner id equal to user.id
IsOwner == data.present /\ data.hasUserId /\ data.userId = user.id

\* the Permission whose flags are the five low bits of a set of bits
Decoded(bits) ==
  [create |-> 3 \in bits, read |-> 2 \in bits, update |-> 1 \in bits,
   delete |-> 0 \in bits, admin |-> 4 \in bits]

\* the bits of an access value given as a bitfield or as a Permission
BitsOfInput(in) ==
  IF in.isNumber THEN in.num.int
  ELSE (IF in.perm.create THEN {3} ELSE {}) \cup (IF in.perm.read THEN {2} ELSE {})
         \cup (IF in.perm.update THEN {1} ELSE {})
         \cup (IF in.perm.delete THEN {0} ELSE {})
         \cup (IF in.perm.admin THEN {4} ELSE {})

\* an access value that is a Permission or a valid bitfield
InputValid(in) == in.isNumber => IsUint32(in.num)

\* the user is not the owner of the item, which has access settings whose
\* bitfields are valid, and the user's roles are valid
NonOwnerOfValidItem ==
  /\ itemArg.access.present
  /\ ~(itemArg.uid.kind \in {"string", "object"} /\ itemArg.uid.id = user.id)
  /\ RolesValid(user.roles)
  /\ itemArg.access.hasGlobal => InputValid(itemArg.access.global)
  /\ \A i \in 1 .. Len(itemArg.access.users) : InputValid(itemArg.access.users[i].access)

\* the positions of the per-user overrides that match user.id
OverridesOfUser ==
  {i \in 1 .. Len(itemArg.access.users) :
     itemArg.access.hasUsers /\ itemArg.access.users[i].uid = user.id}

\* a sequence in the opposite order
Reverse(q) == [i \in 1 .. Len(q) |-> q[Len(q) + 1 - i]]

\* every bitfield of the access settings is a valid one
AccessValid(access) ==
  /\ access.hasGlobal => InputValid(access.global)
  /\ \A i \in 1 .. Len(access.users) : InputValid(access.users[i].access)

-----------------------------------------------------------------------------
(* Claims *)

\* C1: for a single required map and valid roles, checkPermission returns true
\* iff every zone with a non-zero requirement has all its required bits in the
\* OR of the roles' bitfields for that zone, for bitfields up to 2^32 - 1.
C1_SingleMapIffAllBitsGranted ==
  (op = "checkPermission" /\ ~needed.isArray /\ RolesValid(user.roles))
    => Returns(result, Satisfied(needed.map, user.roles))

\* C2: for a non-empty list of required maps and valid roles, checkPermission
\* returns true iff at least one map of the list is satisfied on its own.
C2_ListIffSomeMapSatisfied ==
  (op = "checkPermission" /\ needed.isArray /\ needed.list # <<>>
     /\ RolesValid(user.roles))
    => Returns(result,
         \E i \in 1 .. Len(needed.list) : Satisfied(needed.list[i], user.roles))

\* C3: when data carries an owner id equal to user.id, assertDataAccess
\* returns true, whatever the requirement (map or list) and the user's roles.
C3_OwnerBypass ==
  (op = "assertDataAccess" /\ IsOwner) => Returns(result, TRUE)

\* the owner is let through although the roles do not satisfy the requirement
C3_Witness ==
  /\ op = "assertDataAccess"
  /\ IsOwner
  /\ Returns(result, TRUE)
  /\ needed.isArray
  /\ ~Returns(checkPermission(needed, user.roles), TRUE)

\* C4: when data is absent, has no owner id or another owner id,
\* assertDataAccess returns true exactly when checkPermission is true, and
\* fails with the message "Unauthorized" when checkPermission is false.
C4_NotOwnedDelegates ==
  (op = "assertDataAccess" /\ ~IsOwner)
    => LET granted == checkPermission(needed, user.roles)
       IN /\ Returns(result, TRUE) <=> Returns(granted, TRUE)
          /\ Returns(granted, FALSE)
               => (result.threw /\ result.error.message = "Unauthorized")

\* data owned by somebody else is refused with "Unauthorized"
C4_Witness ==
  /\ op = "assertDataAccess"
  /\ data = DataOf("other-user")
  /\ result.threw
  /\ result.error.message = "Unauthorized"

\* C5: assertAccess fails with the Unauthorized error (status unauthorized,
\* message "Not authenticated") exactly when checkPermission returns false,
\* and returns normally when checkPermission returns true.
C5_AssertAccessThrowsIffDenied ==
  op = "assertAccess"
    => LET granted == checkPermission(needed, user.roles)
       IN /\ Returns(granted, FALSE)
               <=> (/\ result.threw
                    /\ result.error
                         = AccessControlException("Not authenticated", "unauthorized"))
          /\ Returns(granted, TRUE) => result = Return(Undefined)

\* a single map the roles do not satisfy is refused
C5_Witness ==
  /\ op = "assertAccess"
  /\ ~needed.isArray
  /\ result.threw
  /\ result.error.status = "unauthorized"

\* C6: a map with no entries or only zero entries is satisfied by every role
\* list, and a zero entry never changes the result of a map that also has
\* non-zero entries.
C6_ZeroEntriesIgnored ==
  (op = "checkPermission" /\ ~needed.isArray)
    => LET m == needed.map
           nonZero == [z \in {k \in DOMAIN m : m[k] # Zero} |-> m[z]]
       IN /\ (\A z \in DOMAIN m : m[z] = Zero) => Returns(result, TRUE)
          /\ result = checkPermission(NeededMap(nonZero), user.roles)

\* a zero-only map passes although a role is invalid
C6_Witness ==
  /\ op = "checkPermission"
  /\ ~needed.isArray
  /\ DOMAIN needed.map = Zones
  /\ \A z \in Zones : needed.map[z] = Zero
  /\ ~RolesValid(user.roles)
  /\ Returns(result, TRUE)

\* C7: given a list, checkPermission returns true for every role list when
\* the list is empty or contains a map with no non-zero entry.
C7_ListWithTrivialMapPasses ==
  (/\ op = "checkPermission"
   /\ needed.isArray
   /\ \/ needed.list = <<>>
      \/ \E i \in 1 .. Len(needed.list) :
           \A z \in DOMAIN needed.list[i] : needed.list[i][z] = Zero)
    => Returns(result, TRUE)

\* C8: for valid bitfield and requiredMask, hasPermission returns true iff
\* every bit set in requiredMask is set in bitfield.
C8_HasFlagIffAllBits ==
  (op = "hasPermission" /\ IsUint32(args[1]) /\ IsUint32(args[2]))
    => Returns(result, args[2].int \subseteq args[1].int)

\* C9: hasPermission, fromBitField, combinePermissions and
\* normalizePermissionToBitField return no result when a numeric operand is
\* not a valid bitfield: each fails with InvalidPermission.
C9_InvalidOperandNeverAnswers ==
  /\ (op = "hasPermission" /\ \E i \in 1 .. 2 : ~IsUint32(args[i]))
       => FailsInvalidPermission(result)
  /\ (op = "fromBitField" /\ ~IsUint32(args[1]))
       => FailsInvalidPermission(result)
  /\ (op = "combinePermissions" /\ \E i \in 1 .. Len(args) : ~IsUint32(args[i]))
       => FailsInvalidPermission(result)
  /\ (op = "normalizePermissionToBitField" /\ input.isNumber /\ ~IsUint32(input.num))
       => FailsInvalidPermission(result)

\* hasPermission(-1, READ) is refused
C9_Witness ==
  /\ op = "hasPermission"
  /\ args = <<Num(-1), PERMISSION_MASKS.READ>>
  /\ FailsInvalidPermission(result)

\* C10: isValidBitField(x) is true iff x is an integer with
\* 0 <= x <= 0xFFFFFFFF, and validateBitField fails with InvalidPermission
\* exactly when isValidBitField(x) is false.
C10_ValidIffUint32 ==
  /\ op = "isValidBitField" => Returns(result, IsUint32(args[1]))
  /\ op = "validateBitField"
       => /\ FailsInvalidPermission(result) <=> ~isValidBitField(args[1])
          /\ ~result.threw <=> IsUint32(args[1])

\* the largest bitfield, 0xFFFFFFFF, is accepted
C10_Witness ==
  /\ op = "isValidBitField"
  /\ args = <<MAX_VALID_PERMISSION>>
  /\ Returns(result, TRUE)

\* C11: isValidZoneName(s) is true iff s is non-empty, has at most 128
\* characters, is not a reserved name and neither starts nor ends with "_";
\* validateZoneName fails with InvalidPermission exactly when isValidZoneName
\* is false, and reports the first reason that applies, in the order empty,
\* too long, reserved, underscore.
C11_ZoneNameRule ==
  LET s == zoneArg
      empty == Len(s) = 0
      tooLong == Len(s) > 128
      reserved == s \in RESERVED_ZONE_NAMES
      underscore == ~empty /\ (SubSeq(s, 1, 1) = "_" \/ SubSeq(s, Len(s), Len(s)) = "_")
      valid == ~empty /\ ~tooLong /\ ~reserved /\ ~underscore
  IN /\ op = "isValidZoneName" => Returns(result, valid)
     /\ op = "validateZoneName"
          => /\ FailsInvalidPermission(result) <=> ~isValidZoneName(s)
             /\ result.threw <=> ~valid
             /\ result.threw
                  => result.error.message
                       = (IF empty THEN "Must not be empty."
                          ELSE IF tooLong THEN "Must not exceed 128 characters."
                          ELSE IF reserved
                            THEN "is a reserved property name and cannot be used as a zone name."
                          ELSE "Must not start or end with underscore.")

\* a name of exactly 128 characters is accepted
C11_Witness ==
  /\ op = "isValidZoneName"
  /\ Len(zoneArg) = 128
  /\ Returns(result, TRUE)

\* C12: for valid roles the result of collapseRoles depends only on the set
\* of roles: every list with the same roles, in any order and with roles
\* repeated, collapses to the same zone-to-bitfield mapping.
C12_CollapseDependsOnSet ==
  (op = "collapseRoles" /\ RolesValid(rolesArg))
    => \A other \in SeqsUpTo(Range(rolesArg), Len(rolesArg) + 1) :
         Range(other) = Range(rolesArg) => collapseRoles(other) = result

\* two roles that share a zone are collapsed
C12_Witness ==
  /\ op = "collapseRoles"
  /\ Len(rolesArg) = 2
  /\ rolesArg[1].name = "Editor"
  /\ rolesArg[2].name = "Viewer"
  /\ ~result.threw
  /\ result.value["content"] = Num(14)

\* C13: for valid roles the mapping returned by collapseRoles has exactly the
\* zones that occur in some role, and each value is the OR of the bitfields
\* the roles give the zone and is an integer in [0, 2^32 - 1].
C13_CollapsedIsOrAndValid ==
  (op = "collapseRoles" /\ RolesValid(rolesArg))
    => /\ ~result.threw
       /\ DOMAIN result.value = ZonesOf(rolesArg)
       /\ \A z \in ZonesOf(rolesArg) :
            /\ IsUint32(result.value[z])
            /\ result.value[z].int = GrantedBits(rolesArg, z)

C16_ValidationFailurePropagates ==
  (/\ op \in {"checkPermission", "assertAccess", "assertDataAccess"}
   /\ op = "assertDataAccess" => ~IsOwner
   /\ IF needed.isArray
        THEN \E i \in 1 .. Len(needed.list) :
               \E z \in DOMAIN needed.list[i] : needed.list[i][z] # Zero
        ELSE \E z \in DOMAIN needed.map : needed.map[z] # Zero
   /\ \E r \in 1 .. Len(user.roles) : \E i \in 1 .. Len(user.roles[r].access) :
        ~IsUint32(user.roles[r].access[i].permission))
    => FailsInvalidPermission(result)

\* a valid role that would grant the requirement, then a role with the
\* bitfield -1: the check on somebody else's data fails with InvalidPermission
C16_Witness ==
  /\ op = "assertDataAccess"
  /\ data = DataOf("other-user")
  /\ ~needed.isArray
  /\ needed.map = [z \in {"content"} |-> PERMISSION_MASKS.READ]
  /\ Len(user.roles) = 2
  /\ user.roles[1].name = "Viewer"
  /\ user.roles[2].name = "Broken"
  /\ FailsInvalidPermission(result)

C18_OwnerGetsFullAdmin ==
  (/\ op = "getUserPermissions"
   /\ itemArg.access.present
   /\ itemArg.uid.kind \in {"string", "object"}
   /\ itemArg.uid.id = user.id)
    => Returns(result,
               [create |-> TRUE, read |-> TRUE, update |-> TRUE, delete |-> TRUE,
                admin |-> TRUE])

\* C19: hasPermissions returns true when the global override contains the
\* READ bit; otherwise, with a legacy permissions field, it returns true
\* exactly when the field is 0, or is 1 and write is false; in every other
\* case it returns false.
C19_LegacyThresholds ==
  op = "hasPermissions"
    => LET access == itemArg.access
           legacy == itemArg.permissions
           globalHasRead ==
             /\ access.present
             /\ access.hasGlobal
             /\ IF access.global.isNumber
                  THEN IsUint32(access.global.num) /\ 2 \in access.global.num.int
                  ELSE access.global.perm.read
       IN Returns(result,
            \/ globalHasRead
            \/ /\ legacy.present
               /\ \/ legacy.num = Zero
                  \/ legacy.num = Num(1) /\ ~writeArg)

\* C19, amended: as C19 for an item whose global override, if any, is a
\* Permission or a valid bitfield; with a global override that is a number
\* but not a valid bitfield, hasPermissions fails with InvalidPermission.
C19_LegacyThresholdsForValidGlobal ==
  op = "hasPermissions"
    => LET access == itemArg.access
           legacy == itemArg.permissions
           hasGlobal == access.present /\ access.hasGlobal
           globalInvalid ==
             hasGlobal /\ access.global.isNumber /\ ~IsUint32(access.global.num)
           globalHasRead ==
             /\ hasGlobal
             /\ IF access.global.isNumber
                  THEN 2 \in access.global.num.int
                  ELSE access.global.perm.read
       IN IF globalInvalid THEN FailsInvalidPermission(result)
          ELSE Returns(result,
                 \/ globalHasRead
                 \/ /\ legacy.present
                    /\ \/ legacy.num = Zero
                       \/ legacy.num = Num(1) /\ ~writeArg)

\* a global override without READ, a read-only legacy field and a write
\* request: refused
C19_Witness ==
  /\ op = "hasPermissions"
  /\ itemArg.access.hasGlobal
  /\ itemArg.access.global = NumberInput(PERMISSION_MASKS.UPDATE)
  /\ itemArg.permissions = Legacy(Num(1))
  /\ writeArg
  /\ Returns(result, FALSE)

\* C20: for every configuration of n <= 27 capabilities the i-th declared
\* capability (i = 0 .. n-1) gets the mask whose only bit is bit 5+i; the
\* masks are pairwise distinct valid bitfields in [0, 2^32 - 1] that share no
\* bit with the five base masks, and extendedBitsMask is the OR of them all.
C20_ExtensionMasks ==
  (op = "defineExtendedPermissions" /\ Len(configArg) <= 27)
    => /\ ~result.threw
       /\ DOMAIN result.value.masks = {configArg[i].key : i \in 1 .. Len(configArg)}
       /\ \A i \in 1 .. Len(configArg) :
            LET mask == result.value.masks[configArg[i].key]
            IN /\ mask = Pow2(5 + (i - 1))
               /\ IsUint32(mask)
               /\ mask.int \cap 0 .. 4 = {}
               /\ \A j \in 1 .. Len(configArg) :
                    result.value.masks[configArg[j].key] = mask => j = i
       /\ result.value.extendedBitsMask
            = Finite(FALSE, {5 + (i - 1) : i \in 1 .. Len(configArg)}, FALSE)

\* C21: for every configuration of up to 27 extension flags and every
\* assignment p of booleans to the base and extension flags, the extended
\* toBitField(p) is a valid bitfield and the extended
\* fromBitField(toBitField(p)) is p.
C21_ExtendedCodecRoundTrip ==
  (op = "extended.toBitField" /\ Len(configArg) <= 27)
    => /\ ~result.threw
       /\ IsUint32(result.value)
       /\ extendedFromBitField(defineExtendedPermissions(configArg).value,
                               result.value)
            = Return(objArg)

\* C22: defineExtendedPermissions rejects every configuration of more than
\* 27 capabilities and accepts every configuration of 27 or fewer.
C22_LimitIs27 ==
  op = "defineExtendedPermissions"
    => /\ Len(configArg) > 27 => (result.threw /\ result.error.name = "Error")
       /\ Len(configArg) <= 27
            => (~result.threw /\ Len(result.value.camelToMask) = Len(configArg))

\* exactly 27 capabilities are accepted
C22_Witness ==
  /\ op = "defineExtendedPermissions"
  /\ Len(configArg) = 27
  /\ ~result.threw
  /\ Len(result.value.camelToMask) = 27

\* C23: for a valid bitfield and a valid allowedMask,
\* validateAllowedPermissions fails iff the bitfield has a bit that is not set
\* in allowedMask, and the failure is an error of the kind InvalidPermission.
C23_DisallowedBitsRejected ==
  (op = "validateAllowedPermissions" /\ IsUint32(args[1]) /\ IsUint32(args[2]))
    => /\ result.threw <=> ~(args[1].int \subseteq args[2].int)
       /\ result.threw => FailsInvalidPermission(result)

\* C24: getUserZones(user) returns the zones the user has any permission
\* for: a zone is in the result iff the OR of the bitfields the user's roles
\* give that zone has at least one bit set.
C24_ZonesWithSomeBit ==
  (op = "getUserZones" /\ RolesValid(rolesArg))
    => Returns(result,
               {z \in ZonesOf(rolesArg) : GrantedBits(rolesArg, z) # {}})

\* C25: the owner check of getUserPermissions applies to every item: an item
\* whose uid equals user.id yields the admin Permission of the owner branch,
\* fromBitField(PERMISSION_MASKS.ADMIN), also when the item carries no access
\* settings at all.
C25_OwnerCheckOnEveryItem ==
  (/\ op = "getUserPermissions"
   /\ itemArg.uid.kind \in {"string", "object"}
   /\ itemArg.uid.id = user.id)
    => result = fromBitField(PERMISSION_MASKS.ADMIN)

\* C26: for a user who is not the item's owner and an item with access
\* settings, getUserPermissions returns the per-user override matching user.id
\* when one exists (decoded when it is a bitfield); otherwise it returns the
\* decoding of the roles' aggregated bitfield for zoneKey ANDed with the global
\* override when one is declared.
C26_OverrideElseRolesAndGlobal ==
  (op = "getUserPermissions" /\ NonOwnerOfValidItem)
    => IF OverridesOfUser # {}
       THEN \E i \in OverridesOfUser :
              Returns(result, Decoded(BitsOfInput(itemArg.access.users[i].access)))
       ELSE Returns(result,
              Decoded(GrantedBits(user.roles, zoneArg)
                        \cap (IF itemArg.access.hasGlobal
                              THEN BitsOfInput(itemArg.access.global)
                              ELSE Word)))

\* C27: for every sequence of valid bitfields, combinePermissions returns the
\* bitwise OR of all operands as a valid bitfield in [0, 2^32 - 1]; the result
\* for an empty sequence is 0, and the result does not depend on the order of
\* the operands.
C27_CombineIsUnsignedOr ==
  (op = "combinePermissions" /\ \A i \in 1 .. Len(args) : IsUint32(args[i]))
    => /\ Returns(result, Finite(FALSE, UNION {args[i].int : i \in 1 .. Len(args)}, FALSE))
       /\ IsUint32(result.value)
       /\ args = <<>> => result.value = Zero
       /\ combinePermissions(Reverse(args)) = result

C29_AddingARoleNeverRevokes ==
  (op = "checkPermission" /\ RolesValid(user.roles) /\ Returns(result, TRUE))
    => \A r \in {x \in RolePool \cup IdleRoles : RolesValid(<<x>>)} :
         Returns(checkPermission(needed, Append(user.roles, r)), TRUE)

C29_Witness ==
  /\ op = "checkPermission"
  /\ RolesValid(user.roles)
  /\ Len(user.roles) = 1
  /\ ~needed.isArray
  /\ \E z \in DOMAIN needed.map : needed.map[z] # Zero
  /\ Returns(result, TRUE)
  /\ \E r \in RolePool :
       /\ RolesValid(<<r>>)
       /\ r # user.roles[1]
       /\ Returns(checkPermission(needed, <<r>>), FALSE)
       /\ Returns(checkPermission(needed, Append(user.roles, r)), TRUE)

\* C30: no evaluation or aggregation operation mutates its arguments: after
\* any call of checkPermission, collapseRoles, getGlobalPermissions or
\* getUserPermissions, returned or failed, the required map, zero-valued
\* entries included, and every role's access map are unchanged, and the
\* aggregated mapping returned is a fresh object, none of the input maps.
C30_ArgumentsNotMutated ==
  op \in {"checkPermission", "collapseRoles", "getGlobalPermissions",
          "getUserPermissions"}
    => /\ Len(heap.objects) >= 1 + Len(user.roles)
       /\ heap.objects[1] = Spread(needed)
       /\ \A i \in 1 .. Len(user.roles) : heap.objects[1 + i] = user.roles[i].access
       /\ (op \in {"collapseRoles", "getGlobalPermissions"} /\ ~result.threw)
            => /\ heap.returned \in (2 + Len(user.roles)) .. Len(heap.objects)
               /\ heap.objects[heap.returned] = result.value

C30_Witness ==
  /\ op = "checkPermission"
  /\ ~needed.isArray
  /\ \E z \in DOMAIN needed.map : needed.map[z] = Zero
  /\ \E z \in DOMAIN needed.map : needed.map[z] # Zero
  /\ Len(user.roles) = 2
  /\ Len(heap.objects) = 5
  /\ DOMAIN heap.objects[1] = DOMAIN needed.map
  /\ DOMAIN heap.objects[4] # DOMAIN needed.map
  /\ Returns(result, TRUE)

====
